---------------------------- MODULE Spec2Model ----------------------------
(***************************************************************************)
(* A model of the DCF extraction and analytics engine of ExcelConverter    *)
(* (src/app.js): label matching, year detection, row extraction, sheet     *)
(* selection, metric derivation, the IRR estimate and the sensitivity      *)
(* grid.                                                                   *)
(*                                                                         *)
(* Representation.                                                         *)
(*  - A JavaScript string is a sequence of one-character strings.          *)
(*  - A JavaScript number is an integer count of 1/Unit (fixed point, two  *)
(*    decimals): 1.00 is Unit, 0.09 is 9, the year 2025 is 2025 * Unit.    *)
(*    Sums, differences, abs and the x100 percent conversion are exact in  *)
(*    this image; a quotient is truncated to 1/Unit.                       *)
(*  - A raw cell, and an entry of a series, is a tagged value: NullV (JS   *)
(*    null or undefined: a missing cell, "absent"), NaNV, Num(n), Str(s).  *)
(*  - series and scalars are functions whose DOMAIN is the set of keys the *)
(*    JS object holds.                                                     *)
(***************************************************************************)
EXTENDS Integers, Sequences, FiniteSets, TLC

\* `* 100` / `/ 100`: the percent factor of the code.
PERCENT == 100

\* The fixed-point image of numbers: one is Unit. It equals the percent
\* factor so that the x100 conversion of a fraction is exact.
Unit == PERCENT

NullV == [k |-> "null"]
NaNV == [k |-> "nan"]
Num(n) == [k |-> "num", n |-> n]
Str(s) == [k |-> "str", s |-> s]

IsNum(v) == v.k = "num"

\* JS `v != null`
NotNull(v) == v.k # "null"

\* JS truthiness of a cell or series entry
Truthy(v) ==
  CASE v.k = "num" -> v.n # 0
    [] v.k = "str" -> v.s # <<>>
    [] OTHER -> FALSE

\* Math.abs
Abs(n) == IF n < 0 THEN -n ELSE n

Max(a, b) == IF a > b THEN a ELSE b

Min(a, b) == IF a < b THEN a ELSE b

\* Array.prototype.map
Map(s, F(_)) == [i \in 1..Len(s) |-> F(s[i])]

\* Array.prototype.filter
Filter(s, P(_)) ==
  LET F[i \in 0..Len(s)] ==
        IF i = 0 THEN <<>>
        ELSE IF P(s[i]) THEN Append(F[i - 1], s[i]) ELSE F[i - 1]
  IN  F[Len(s)]

-----------------------------------------------------------------------------
(* Strings *)

UpperChars ==
  <<"A","B","C","D","E","F","G","H","I","J","K","L","M",
    "N","O","P","Q","R","S","T","U","V","W","X","Y","Z">>

LowerChars ==
  <<"a","b","c","d","e","f","g","h","i","j","k","l","m",
    "n","o","p","q","r","s","t","u","v","w","x","y","z">>

DigitChars == <<"0","1","2","3","4","5","6","7","8","9">>

Range(s) == {s[i] : i \in DOMAIN s}

UpperSet == Range(UpperChars)

DigitSet == Range(DigitChars)

\* [a-z0-9 ]
KeptSet == Range(LowerChars) \cup DigitSet \cup {" "}

LowerOf == [c \in UpperSet |-> LowerChars[CHOOSE i \in DOMAIN UpperChars : UpperChars[i] = c]]

ValueOf == [c \in DigitSet |-> (CHOOSE i \in DOMAIN DigitChars : DigitChars[i] = c) - 1]

IsDigit(c) == c \in DigitSet

DigitValue(c) == ValueOf[c]

\* \s of a JS regular expression, and the characters String.trim strips
IsSpace(c) == c \in {" ", "\t", "\n"}

\* A character left in the case it has
KeepCase(c) == c

\* String.prototype.toLowerCase, one character
ToLowerChar(c) == IF c \in UpperSet THEN LowerOf[c] ELSE c

\* .replace(/[^a-z0-9 ]/g, ' '), one character
KeepOrSpace(c) == IF c \in KeptSet THEN c ELSE " "

\* .replace(/\s+/g, ' '): every maximal run of whitespace becomes one space
RECURSIVE CollapseSpaces(_)
CollapseSpaces(s) ==
  IF s = <<>> THEN <<>>
  ELSE IF IsSpace(Head(s))
       THEN IF Len(s) > 1 /\ IsSpace(s[2])
            THEN CollapseSpaces(Tail(s))
            ELSE <<" ">> \o CollapseSpaces(Tail(s))
       ELSE <<Head(s)>> \o CollapseSpaces(Tail(s))

RECURSIVE TrimStart(_)
TrimStart(s) ==
  IF s # <<>> /\ IsSpace(Head(s)) THEN TrimStart(Tail(s)) ELSE s

RECURSIVE TrimEnd(_)
TrimEnd(s) ==
  IF s # <<>> /\ IsSpace(s[Len(s)]) THEN TrimEnd(SubSeq(s, 1, Len(s) - 1)) ELSE s

\* String.prototype.trim
Trim(s) == TrimEnd(TrimStart(s))

\* String.prototype.includes
Includes(n, p) ==
  \E i \in 0..(Len(n) - Len(p)) : SubSeq(n, i + 1, i + Len(p)) = p

\* String.prototype.startsWith
StartsWith(n, p) == Len(p) <= Len(n) /\ SubSeq(n, 1, Len(p)) = p

\* String.prototype.endsWith
EndsWith(n, p) ==
  Len(p) <= Len(n) /\ SubSeq(n, Len(n) - Len(p) + 1, Len(n)) = p

\* The decimal digits of a natural number
RECURSIVE NatToChars(_)
NatToChars(n) ==
  IF n < 10 THEN <<DigitChars[n + 1]>>
  ELSE NatToChars(n \div 10) \o <<DigitChars[(n % 10) + 1]>>

\* The digits after the decimal point of a fixed-point fraction f in
\* 1..Unit-1, without trailing zeros (Unit = 100: two places).
FracChars(f) ==
  IF f % 10 = 0 THEN <<DigitChars[(f \div 10) + 1]>>
  ELSE <<DigitChars[(f \div 10) + 1], DigitChars[(f % 10) + 1]>>

\* String(n) of a number
NumToChars(n) ==
  LET a == Abs(n)
      body == NatToChars(a \div Unit) \o
              (IF a % Unit = 0 THEN <<>> ELSE <<".">> \o FracChars(a % Unit))
  IN  IF n < 0 THEN <<"-">> \o body ELSE body

\* String(v) of a cell
ToStr(v) ==
  CASE v.k = "str" -> v.s
    [] v.k = "num" -> NumToChars(v.n)
    [] v.k = "nan" -> <<"N","a","N">>
    [] OTHER -> <<"n","u","l","l">>

RECURSIVE DigitsValue(_)
DigitsValue(s) ==
  IF s = <<>> THEN 0
  ELSE 10 * DigitsValue(SubSeq(s, 1, Len(s) - 1)) + DigitValue(s[Len(s)])

\* Number(s) of a string: surrounding whitespace is ignored, the empty
\* string is 0, a run of decimal digits is its value, anything else is NaN.
\* (Signs, decimal points, exponents and hex literals are not in the
\* strings the model draws.)
StrToNumber(s) ==
  LET t == Trim(s)
  IN  IF t = <<>> THEN Num(0)
      ELSE IF \A i \in DOMAIN t : IsDigit(t[i]) THEN Num(DigitsValue(t) * Unit)
      ELSE NaNV

\* Number(v) of a cell that is not null (Number(null) = 0 and
\* Number(undefined) = NaN are told apart in NumberOf's callers)
NumberOf(v) ==
  CASE v.k = "str" -> StrToNumber(v.s)
    [] v.k = "num" -> v
    [] OTHER -> NaNV

-----------------------------------------------------------------------------
(* Label Matcher *)

LABEL_MAP ==
  <<
     [key |-> "revenue", patterns |-> <<
        <<"r","e","v","e","n","u","e">>,
        <<"t","o","t","a","l"," ","r","e","v","e","n","u","e">>,
        <<"s","a","l","e","s">>,
        <<"t","o","t","a","l"," ","s","a","l","e","s">>,
        <<"n","e","t"," ","r","e","v","e","n","u","e">>,
        <<"n","e","t"," ","s","a","l","e","s">> >>],
     [key |-> "cogs", patterns |-> <<
        <<"c","o","g","s">>,
        <<"c","o","s","t"," ","o","f"," ","g","o","o","d","s">>,
        <<"c","o","s","t"," ","o","f"," ","r","e","v","e","n","u","e">>,
        <<"c","o","s","t"," ","o","f"," ","s","a","l","e","s">>,
        <<"c","o","s">> >>],
     [key |-> "grossProfit", patterns |-> <<
        <<"g","r","o","s","s"," ","p","r","o","f","i","t">>,
        <<"g","r","o","s","s"," ","i","n","c","o","m","e">> >>],
     [key |-> "ebitda", patterns |-> <<
        <<"e","b","i","t","d","a">>,
        <<"a","d","j"," ","e","b","i","t","d","a">>,
        <<"a","d","j","u","s","t","e","d"," ","e","b","i","t","d","a">> >>],
     [key |-> "da", patterns |-> <<
        <<"d","e","p","r","e","c","i","a","t","i","o","n"," ","&"," ","a","m","o","r","t","i","z","a","t","i","o","n">>,
        <<"d","e","p","r","e","c","i","a","t","i","o","n"," ","a","n","d"," ","a","m","o","r","t","i","z","a","t","i","o","n">>,
        <<"d","&","a">>,
        <<"d","e","p","r","e","c","i","a","t","i","o","n">>,
        <<"a","m","o","r","t","i","z","a","t","i","o","n">>,
        <<"d","e","p"," ","&"," ","a","m","o","r","t">> >>],
     [key |-> "ebit", patterns |-> <<
        <<"e","b","i","t">>,
        <<"o","p","e","r","a","t","i","n","g"," ","i","n","c","o","m","e">>,
        <<"o","p","e","r","a","t","i","n","g"," ","p","r","o","f","i","t">>,
        <<"o","p"," ","i","n","c","o","m","e">> >>],
     [key |-> "netIncome", patterns |-> <<
        <<"n","e","t"," ","i","n","c","o","m","e">>,
        <<"n","e","t"," ","p","r","o","f","i","t">>,
        <<"n","e","t"," ","e","a","r","n","i","n","g","s">>,
        <<"p","r","o","f","i","t"," ","a","f","t","e","r"," ","t","a","x">> >>],
     [key |-> "capex", patterns |-> <<
        <<"c","a","p","e","x">>,
        <<"c","a","p","i","t","a","l"," ","e","x","p","e","n","d","i","t","u","r","e">>,
        <<"c","a","p","i","t","a","l"," ","e","x","p","e","n","d","i","t","u","r","e","s">>,
        <<"p","p","&","e"," ","p","u","r","c","h","a","s","e","s">>,
        <<"p","u","r","c","h","a","s","e","s"," ","o","f"," ","p","p","e">> >>],
     [key |-> "fcf", patterns |-> <<
        <<"f","r","e","e"," ","c","a","s","h"," ","f","l","o","w">>,
        <<"f","c","f">>,
        <<"u","n","l","e","v","e","r","e","d"," ","f","r","e","e"," ","c","a","s","h"," ","f","l","o","w">>,
        <<"u","f","c","f">>,
        <<"l","e","v","e","r","e","d"," ","f","r","e","e"," ","c","a","s","h"," ","f","l","o","w">>,
        <<"f","c","f","f">> >>],
     [key |-> "wacc", patterns |-> <<
        <<"w","a","c","c">>,
        <<"d","i","s","c","o","u","n","t"," ","r","a","t","e">>,
        <<"w","e","i","g","h","t","e","d"," ","a","v","e","r","a","g","e"," ","c","o","s","t"," ","o","f"," ","c","a","p","i","t","a","l">>,
        <<"c","o","s","t"," ","o","f"," ","c","a","p","i","t","a","l">> >>],
     [key |-> "terminalGrowth", patterns |-> <<
        <<"t","e","r","m","i","n","a","l"," ","g","r","o","w","t","h">>,
        <<"t","e","r","m","i","n","a","l"," ","g","r","o","w","t","h"," ","r","a","t","e">>,
        <<"p","e","r","p","e","t","u","i","t","y"," ","g","r","o","w","t","h">>,
        <<"l","o","n","g"," ","t","e","r","m"," ","g","r","o","w","t","h">>,
        <<"l","t","g">>,
        <<"p","e","r","p","e","t","u","a","l"," ","g","r","o","w","t","h"," ","r","a","t","e">> >>],
     [key |-> "terminalValue", patterns |-> <<
        <<"t","e","r","m","i","n","a","l"," ","v","a","l","u","e">>,
        <<"t","v">>,
        <<"c","o","n","t","i","n","u","i","n","g"," ","v","a","l","u","e">> >>],
     [key |-> "enterpriseValue", patterns |-> <<
        <<"e","n","t","e","r","p","r","i","s","e"," ","v","a","l","u","e">>,
        <<"e","v">>,
        <<"t","o","t","a","l"," ","e","n","t","e","r","p","r","i","s","e"," ","v","a","l","u","e">>,
        <<"f","i","r","m"," ","v","a","l","u","e">> >>],
     [key |-> "equityValue", patterns |-> <<
        <<"e","q","u","i","t","y"," ","v","a","l","u","e">>,
        <<"e","q","u","i","t","y"," ","v","a","l","u","e"," ","p","e","r"," ","s","h","a","r","e">>,
        <<"s","h","a","r","e"," ","p","r","i","c","e">>,
        <<"i","m","p","l","i","e","d"," ","s","h","a","r","e"," ","p","r","i","c","e">>,
        <<"p","r","i","c","e"," ","p","e","r"," ","s","h","a","r","e">>,
        <<"t","a","r","g","e","t"," ","p","r","i","c","e">> >>],
     [key |-> "sharesOutstanding", patterns |-> <<
        <<"s","h","a","r","e","s"," ","o","u","t","s","t","a","n","d","i","n","g">>,
        <<"d","i","l","u","t","e","d"," ","s","h","a","r","e","s">>,
        <<"s","h","a","r","e","s">>,
        <<"t","o","t","a","l"," ","s","h","a","r","e","s">> >>],
     [key |-> "pvFCF", patterns |-> <<
        <<"p","v"," ","o","f"," ","f","c","f">>,
        <<"p","v"," ","o","f"," ","f","r","e","e"," ","c","a","s","h"," ","f","l","o","w">>,
        <<"p","r","e","s","e","n","t"," ","v","a","l","u","e"," ","o","f"," ","f","c","f">>,
        <<"p","r","e","s","e","n","t"," ","v","a","l","u","e"," ","o","f"," ","f","r","e","e"," ","c","a","s","h"," ","f","l","o","w","s">>,
        <<"n","p","v"," ","o","f"," ","f","c","f">>,
        <<"p","v"," ","f","c","f">> >>],
     [key |-> "pvTerminal", patterns |-> <<
        <<"p","v"," ","o","f"," ","t","e","r","m","i","n","a","l">>,
        <<"p","v"," ","o","f"," ","t","v">>,
        <<"p","r","e","s","e","n","t"," ","v","a","l","u","e"," ","o","f"," ","t","e","r","m","i","n","a","l">>,
        <<"p","v"," ","t","e","r","m","i","n","a","l"," ","v","a","l","u","e">> >>],
     [key |-> "tax", patterns |-> <<
        <<"t","a","x","e","s">>,
        <<"i","n","c","o","m","e"," ","t","a","x">>,
        <<"t","a","x"," ","e","x","p","e","n","s","e">>,
        <<"p","r","o","v","i","s","i","o","n"," ","f","o","r"," ","t","a","x","e","s">>,
        <<"t","a","x">> >>],
     [key |-> "interestExpense", patterns |-> <<
        <<"i","n","t","e","r","e","s","t"," ","e","x","p","e","n","s","e">>,
        <<"i","n","t","e","r","e","s","t">> >>],
     [key |-> "nwc", patterns |-> <<
        <<"c","h","a","n","g","e"," ","i","n"," ","n","w","c">>,
        <<"n","e","t"," ","w","o","r","k","i","n","g"," ","c","a","p","i","t","a","l">>,
        <<"c","h","a","n","g","e","s"," ","i","n"," ","w","o","r","k","i","n","g"," ","c","a","p","i","t","a","l">>,
        <<"n","w","c">>,
        <<"w","o","r","k","i","n","g"," ","c","a","p","i","t","a","l">> >>],
     [key |-> "grossMargin", patterns |-> <<
        <<"g","r","o","s","s"," ","m","a","r","g","i","n">> >>],
     [key |-> "ebitdaMargin", patterns |-> <<
        <<"e","b","i","t","d","a"," ","m","a","r","g","i","n">> >>],
     [key |-> "netMargin", patterns |-> <<
        <<"n","e","t"," ","m","a","r","g","i","n">>,
        <<"n","e","t"," ","i","n","c","o","m","e"," ","m","a","r","g","i","n">>,
        <<"p","r","o","f","i","t"," ","m","a","r","g","i","n">> >>]
  >>

normalize(str) == Trim(CollapseSpaces(Map(Map(str, ToLowerChar), KeepOrSpace)))

\* One pattern of one entry against the normalized label n
PatternMatches(n, p) ==
  \/ n = p
  \/ StartsWith(n, p \o <<" ">>)
  \/ EndsWith(n, <<" ">> \o p)
  \/ Includes(n, p) /\ (Len(n) - Len(p)) < 10

\* for (const p of entry.patterns): patterns j, j+1, ... of the entry
RECURSIVE EntryMatches(_, _, _)
EntryMatches(n, entry, j) ==
  IF j > Len(entry.patterns) THEN FALSE
  ELSE IF PatternMatches(n, entry.patterns[j]) THEN TRUE
  ELSE EntryMatches(n, entry, j + 1)

\* for (const entry of LABEL_MAP): the key of the first entry from e on with
\* a matching pattern, "" for null (no key is the empty string)
RECURSIVE firstMatch(_, _)
firstMatch(n, e) ==
  IF e > Len(LABEL_MAP) THEN ""
  ELSE IF EntryMatches(n, LABEL_MAP[e], 1) THEN LABEL_MAP[e].key
  ELSE firstMatch(n, e + 1)

matchLabel(raw) == firstMatch(normalize(raw), 1)

-----------------------------------------------------------------------------
(* Year Detector and Row Extractor *)

\* rows.length < 2: no model
MinRows == 2

\* rows scanned for a numeric year row
YearScanRows == 20

\* rows scanned for captions such as "FY2025"
CaptionScanRows == 10

\* a year row needs at least this many year columns
MinYearCols == 2

YearLo == 2000

YearHi == 2050

\* yearRow = null
NoRow == 0 - 1

\* the empty object {}
EmptyMap == [k \in {} |-> 0]

\* obj[key] = v
Put(f, key, v) == [k \in (DOMAIN f) \cup {key} |-> IF k = key THEN v ELSE f[k]]

\* row[c], c counted from 0 as in the code; a cell past the end is undefined
Cell(row, c) == IF c + 1 \in DOMAIN row THEN row[c + 1] ELSE NullV

\* arr[i], i counted from 1; an entry past the end is undefined
At(s, i) == IF i \in DOMAIN s THEN s[i] ELSE NullV

\* isYearLike(v): Number(v) is an integer in [2000, 2050]
\* (Number(null) = 0 and Number(undefined) = NaN both fail the test)
isYearLike(v) ==
  LET n == NumberOf(v)
  IN  /\ IsNum(n)
      /\ n.n % Unit = 0
      /\ n.n >= YearLo * Unit
      /\ n.n <= YearHi * Unit

\* { col, year } for every cell of the row, from column 1 on, that Sel
\* accepts; YearFrom gives its year
CollectYears(row, Sel(_), YearFrom(_)) ==
  LET last == Max(Len(row) - 1, 0)
      F[c \in 0..last] ==
        IF c = 0 THEN <<>>
        ELSE IF Sel(Cell(row, c))
             THEN Append(F[c - 1], [col |-> c, year |-> YearFrom(Cell(row, c))])
             ELSE F[c - 1]
  IN  F[last]

NumericYear(v) == NumberOf(v).n

NumericYears(row) == CollectYears(row, isYearLike, NumericYear)

\* String(row[c] || '')
CaptionText(v) == IF Truthy(v) THEN ToStr(v) ELSE <<>>

\* positions (from 1) where /(20\d{2})/ matches
CaptionHits(s) ==
  {i \in 1..(Len(s) - 3) :
     /\ s[i] = "2"
     /\ s[i + 1] = "0"
     /\ IsDigit(s[i + 2])
     /\ IsDigit(s[i + 3])}

HasCaptionYear(v) == CaptionHits(CaptionText(v)) # {}

\* Number(m[1]) of the first match
CaptionYear(v) ==
  LET s == CaptionText(v)
      i == CHOOSE h \in CaptionHits(s) : \A g \in CaptionHits(s) : h <= g
  IN  DigitsValue(SubSeq(s, i, i + 3)) * Unit

CaptionYears(row) == CollectYears(row, HasCaptionYear, CaptionYear)

\* The first row r (from 0) below limit whose Years(row) has at least
\* MinYearCols entries, as [yearRow, yearCols]; yearRow = NoRow when none
FirstYearRow(rows, limit, Years(_)) ==
  LET ok == {r \in 0..(Min(Len(rows), limit) - 1) :
               Len(Years(rows[r + 1])) >= MinYearCols}
  IN  IF ok = {} THEN [yearRow |-> NoRow, yearCols |-> <<>>]
      ELSE LET r == CHOOSE x \in ok : \A y \in ok : x <= y
           IN  [yearRow |-> r, yearCols |-> Years(rows[r + 1])]

\* parseSheet, step 1
detectYears(rows) ==
  LET numeric == FirstYearRow(rows, YearScanRows, NumericYears)
  IN  IF numeric.yearCols # <<>> THEN numeric
      ELSE FirstYearRow(rows, CaptionScanRows, CaptionYears)

YearOf(yc) == yc.year

\* v != null ? Number(v) : null
ReadCell(v) == IF NotNull(v) THEN NumberOf(v) ELSE NullV

\* v !== null && !isNaN(v)
IsData(v) == v.k = "num"

\* (v !== null && !isNaN(v) ? v : null)
DataOrNull(v) == IF IsData(v) THEN v ELSE NullV

\* A row scan that keeps only the year columns the row has a cell for
rowValsPresentOnly(row, yearCols) ==
  LET have == Filter(yearCols, LAMBDA yc : NotNull(Cell(row, yc.col)))
  IN  [i \in 1..Len(have) |-> ReadCell(Cell(row, have[i].col))]

\* yearCols.map(yc => ...): the row's values under the year columns
rowVals(row, yearCols) == [i \in 1..Len(yearCols) |-> ReadCell(Cell(row, yearCols[i].col))]

\* The columns (from 1 on) whose cell the scalar scan accepts
ScalarHits(row) ==
  {c \in 1..(Len(row) - 1) :
     /\ IsNum(NumberOf(Cell(row, c)))
     /\ Cell(row, c) # Str(<<>>)
     /\ NotNull(Cell(row, c))}

\* One iteration of the row scan: row r (from 0) of the grid applied to
\* [series, scalars]
scanRow(rows, r, yd, acc) ==
  LET row == rows[r + 1]
      key == matchLabel(ToStr(Cell(row, 0)))
      vals == rowVals(row, yd.yearCols)
      hasData == \E i \in DOMAIN vals : IsData(vals[i])
      hits == ScalarHits(row)
  IN  IF r = yd.yearRow \/ ~Truthy(Cell(row, 0)) \/ key = "" THEN acc
      ELSE IF yd.yearCols # <<>> /\ hasData
           THEN [acc EXCEPT !.series = Put(acc.series, key, Map(vals, DataOrNull))]
      ELSE IF hits # {}
           THEN [acc EXCEPT !.scalars =
                   Put(acc.scalars, key,
                       NumberOf(Cell(row, CHOOSE c \in hits : \A d \in hits : c <= d)).n)]
      ELSE acc

\* Rows r .. rows.length - 1 scanned in order
RECURSIVE scanRows(_, _, _, _)
scanRows(rows, r, yd, acc) ==
  IF r >= Len(rows) THEN acc
  ELSE scanRows(rows, r + 1, yd, scanRow(rows, r, yd, acc))

-----------------------------------------------------------------------------
(* Metric Deriver *)

\* JS truthiness of scalars[k]: present and not 0
Has(scalars, k) == k \in DOMAIN scalars /\ scalars[k] # 0

\* (x || 0) of a series entry
OrZero(v) == IF Truthy(v) THEN v.n ELSE 0

\* a.map((x, i) => x != null && b[i] != null ? F(x, b[i]) : null)
Combine(a, b, F(_, _)) ==
  [i \in 1..Len(a) |->
     IF NotNull(a[i]) /\ NotNull(At(b, i)) THEN Num(F(a[i].n, At(b, i).n)) ELSE NullV]

MinusAbs(x, y) == x - Abs(y)

PlusAbs(x, y) == x + Abs(y)

\* Gross profit taken as revenue - cogs, the sign of the cost kept
deriveGrossProfitSigned(series) ==
  IF "grossProfit" \notin DOMAIN series /\ {"revenue", "cogs"} \subseteq DOMAIN series
  THEN Put(series, "grossProfit",
           Combine(series.revenue, series.cogs, LAMBDA x, y : x - y))
  ELSE series

\* Gross profit = revenue - |cogs|
deriveGrossProfit(series) ==
  IF "grossProfit" \notin DOMAIN series /\ {"revenue", "cogs"} \subseteq DOMAIN series
  THEN Put(series, "grossProfit", Combine(series.revenue, series.cogs, MinusAbs))
  ELSE series

\* EBITDA = EBIT + |D&A|
deriveEbitda(series) ==
  IF "ebitda" \notin DOMAIN series /\ {"ebit", "da"} \subseteq DOMAIN series
  THEN Put(series, "ebitda", Combine(series.ebit, series.da, PlusAbs))
  ELSE series

\* EBIT = EBITDA - |D&A|
deriveEbit(series) ==
  IF "ebit" \notin DOMAIN series /\ {"ebitda", "da"} \subseteq DOMAIN series
  THEN Put(series, "ebit", Combine(series.ebitda, series.da, MinusAbs))
  ELSE series

\* revenue.map((r, i) => r ? ((numer[i] || 0) / r) * 100 : null)
marginSeries(revenue, numer) ==
  [i \in 1..Len(revenue) |->
     IF Truthy(revenue[i])
     THEN Num((OrZero(At(numer, i)) * PERCENT * Unit) \div revenue[i].n)
     ELSE NullV]

deriveMargin(series, margin, numer) ==
  IF "revenue" \in DOMAIN series /\ margin \notin DOMAIN series /\ numer \in DOMAIN series
  THEN Put(series, margin, marginSeries(series.revenue, series[numer]))
  ELSE series

\* The per-year rules, in the order of the code
deriveSeries(series) ==
  deriveMargin(
    deriveMargin(
      deriveMargin(deriveEbit(deriveEbitda(deriveGrossProfit(series))),
                   "grossMargin", "grossProfit"),
      "ebitdaMargin", "ebitda"),
    "netMargin", "netIncome")

NonNull(s) == Filter(s, NotNull)

\* if (!scalars[k] && series[k]) { v = series[k].find(x => x != null); ... }
promoteFirst(series, scalars, k) ==
  IF ~Has(scalars, k) /\ k \in DOMAIN series /\ NonNull(series[k]) # <<>>
  THEN Put(scalars, k, Head(NonNull(series[k])).n)
  ELSE scalars

\* if (scalars[k] && scalars[k] > 0 && scalars[k] < 1) scalars[k] *= 100
toPercent(scalars, k) ==
  IF Has(scalars, k) /\ scalars[k] > 0 /\ scalars[k] < Unit
  THEN Put(scalars, k, scalars[k] * PERCENT)
  ELSE scalars

\* if (!scalars[k] && series[k]) { v = series[k].filter(x => x != null).pop(); ... }
promoteLast(series, scalars, k) ==
  IF ~Has(scalars, k) /\ k \in DOMAIN series /\ NonNull(series[k]) # <<>>
  THEN Put(scalars, k, NonNull(series[k])[Len(NonNull(series[k]))].n)
  ELSE scalars

\* if (!scalars.equityValue && scalars.enterpriseValue) equityValue = enterpriseValue
equityFromEV(scalars) ==
  IF ~Has(scalars, "equityValue") /\ Has(scalars, "enterpriseValue")
  THEN Put(scalars, "equityValue", scalars.enterpriseValue)
  ELSE scalars

\* s.reduce((a, b) => (a || 0) + (b || 0), 0)
RECURSIVE SumOrZero(_)
SumOrZero(s) == IF s = <<>> THEN 0 ELSE OrZero(Head(s)) + SumOrZero(Tail(s))

\* if (!scalars.pvFCF && series.pvFCF) scalars.pvFCF = sum
sumPvFCF(series, scalars) ==
  IF ~Has(scalars, "pvFCF") /\ "pvFCF" \in DOMAIN series
  THEN Put(scalars, "pvFCF", SumOrZero(series.pvFCF))
  ELSE scalars

\* The scalar rules up to and including the pvTerminal promotion
beforeSplit(series, scalars) ==
  LET a == promoteFirst(series, scalars, "wacc")
      b == promoteFirst(series, a, "terminalGrowth")
      c == toPercent(b, "wacc")
      d == toPercent(c, "terminalGrowth")
      e == promoteLast(series, d, "enterpriseValue")
      f == promoteLast(series, e, "terminalValue")
      g == promoteLast(series, f, "equityValue")
      h == equityFromEV(g)
      i == sumPvFCF(series, h)
  IN  promoteLast(series, i, "pvTerminal")

\* The first split rule testing that pvTerminal is present, not that it is
\* non-zero
firesPvFCFIfPresent(scalars) ==
  Has(scalars, "enterpriseValue") /\ "pvTerminal" \in DOMAIN scalars /\ ~Has(scalars, "pvFCF")

\* scalars.enterpriseValue && scalars.pvTerminal && !scalars.pvFCF
firesPvFCF(scalars) ==
  Has(scalars, "enterpriseValue") /\ Has(scalars, "pvTerminal") /\ ~Has(scalars, "pvFCF")

\* scalars.enterpriseValue && scalars.pvFCF && !scalars.pvTerminal
firesPvTerminal(scalars) ==
  Has(scalars, "enterpriseValue") /\ Has(scalars, "pvFCF") /\ ~Has(scalars, "pvTerminal")

\* The difference taken the wrong way round
splitPvFCFSwapped(scalars) ==
  IF firesPvFCF(scalars)
  THEN Put(scalars, "pvFCF", scalars.pvTerminal - scalars.enterpriseValue)
  ELSE scalars

\* pvFCF = enterpriseValue - pvTerminal
splitPvFCF(scalars) ==
  IF firesPvFCF(scalars)
  THEN Put(scalars, "pvFCF", scalars.enterpriseValue - scalars.pvTerminal)
  ELSE scalars

\* pvTerminal = enterpriseValue - pvFCF
splitPvTerminal(scalars) ==
  IF firesPvTerminal(scalars)
  THEN Put(scalars, "pvTerminal", scalars.enterpriseValue - scalars.pvFCF)
  ELSE scalars

deriveScalars(series, scalars) ==
  splitPvTerminal(splitPvFCF(beforeSplit(series, scalars)))

\* deriveMetrics(series, scalars, years): the two objects after the call
\* (years is read for its length only, which no rule uses)
deriveMetrics(series, scalars, years) ==
  [series |-> deriveSeries(series),
   scalars |-> deriveScalars(deriveSeries(series), scalars)]

\* parseSheet(rows): the model, or NullV for null
parseSheet(rows) ==
  IF Len(rows) < MinRows THEN NullV
  ELSE LET yd == detectYears(rows)
           ex == scanRows(rows, 0, yd, [series |-> EmptyMap, scalars |-> EmptyMap])
           dm == deriveMetrics(ex.series, ex.scalars, Map(yd.yearCols, YearOf))
       IN  IF DOMAIN ex.series = {} /\ DOMAIN ex.scalars = {} THEN NullV
           ELSE [k |-> "model",
                 years |-> Map(yd.yearCols, YearOf),
                 series |-> dm.series,
                 scalars |-> dm.scalars]

-----------------------------------------------------------------------------
(* Sheet Selector: pickBestSheet and parseDCF *)

\* if (bestResult && bestScore < 4) return null
MinScore == 4

preferred ==
  << <<"d","c","f">>,
     <<"m","o","d","e","l">>,
     <<"v","a","l","u","a","t","i","o","n">>,
     <<"o","u","t","p","u","t">>,
     <<"s","u","m","m","a","r","y">>,
     <<"f","o","r","e","c","a","s","t">> >>

\* A workbook is a sequence of sheets [name, rows] in SheetNames order;
\* rows is what sheet_to_json(sheet, { header: 1 }) gives.
SheetNames(workbook) == [i \in DOMAIN workbook |-> workbook[i].name]

SheetRows(workbook, name) ==
  workbook[CHOOSE i \in DOMAIN workbook : workbook[i].name = name].rows

\* names.find(n => normalize(n).includes(pref)): the position of the first
\* such name, 0 for undefined
FindName(names, pref) ==
  LET hits == {i \in DOMAIN names : Includes(normalize(names[i]), pref)}
  IN  IF hits = {} THEN 0 ELSE CHOOSE i \in hits : \A j \in hits : i <= j

\* The fallback loop from sheet i on: the sheet with the most rows so far
RECURSIVE mostRows(_, _, _, _)
mostRows(workbook, i, best, bestRows) ==
  IF i > Len(workbook) THEN best
  ELSE IF Len(workbook[i].rows) > bestRows
       THEN mostRows(workbook, i + 1, workbook[i].name, Len(workbook[i].rows))
       ELSE mostRows(workbook, i + 1, best, bestRows)

\* for (const pref of preferred): keywords p, p+1, ... in order, then the
\* fallback
RECURSIVE pickFrom(_, _)
pickFrom(workbook, p) ==
  IF p > Len(preferred) THEN mostRows(workbook, 1, workbook[1].name, 0)
  ELSE IF FindName(SheetNames(workbook), preferred[p]) # 0
       THEN workbook[FindName(SheetNames(workbook), preferred[p])].name
       ELSE pickFrom(workbook, p + 1)

\* The sheets taken in workbook order, each tested against the keywords in
\* turn: the first sheet containing any keyword
pickFirstSheetWithAnyKeyword(workbook) ==
  LET hits == {i \in DOMAIN workbook :
                 \E p \in DOMAIN preferred :
                   Includes(normalize(workbook[i].name), preferred[p])}
  IN  IF hits = {} THEN mostRows(workbook, 1, workbook[1].name, 0)
      ELSE workbook[CHOOSE i \in hits : \A j \in hits : i <= j].name

pickBestSheet(workbook) == pickFrom(workbook, 1)

\* What the row scan of parseSheet extracts, before deriveMetrics is called:
\* [series, scalars], or NullV where parseSheet returns null
extractSheet(rows) ==
  IF Len(rows) < MinRows THEN NullV
  ELSE LET ex == scanRows(rows, 0, detectYears(rows),
                          [series |-> EmptyMap, scalars |-> EmptyMap])
       IN  IF DOMAIN ex.series = {} /\ DOMAIN ex.scalars = {} THEN NullV ELSE ex

\* Object.keys(result.series).length + Object.keys(result.scalars).length * 2
scoreOf(res) == Cardinality(DOMAIN res.series) + Cardinality(DOMAIN res.scalars) * 2

\* A later candidate replacing the kept one on an equal score
beatsOrTiesBest(score, best) == score >= best

\* if (score > bestScore)
beatsBest(score, best) == score > best

\* A return without the threshold test
dcfReturnUnchecked(best, score) == best

\* if (bestResult && bestScore < 4) return null; return bestResult;
dcfReturn(best, score) ==
  IF best # NullV /\ score < MinScore THEN NullV ELSE best

-----------------------------------------------------------------------------
(* Valuation Analytics: the sensitivity grid *)

\* [-2.0, -1.0, -0.5, 0, 0.5, 1.0, 2.0], in half percentage points
waccOffsets == <<0 - 4, 0 - 2, 0 - 1, 0, 1, 2, 4>>

\* [-1.0, -0.5, 0, 0.5, 1.0], in half percentage points
tgOffsets == <<0 - 2, 0 - 1, 0, 1, 2>>

HalfPoint == Unit \div 2

\* offsets.map(d => base + d)
rangeAround(base, offsets) == [i \in DOMAIN offsets |-> base + offsets[i] * HalfPoint]

\* data.series.fcf ? data.series.fcf.filter(x => x != null).pop() : null
lastFCFOf(data) ==
  IF "fcf" \in DOMAIN data.series /\ NonNull(data.series.fcf) # <<>>
  THEN NonNull(data.series.fcf)[Len(NonNull(data.series.fcf))]
  ELSE NullV

\* data.scalars[k], NullV for undefined
ScalarOf(data, k) == IF k \in DOMAIN data.scalars THEN Num(data.scalars[k]) ELSE NullV

\* (1 + g) / (w - g) with w = wacc / 100 and g = tg / 100, wacc and tg in
\* percent: the Gordon-growth multiple
gordonMultiple(wacc, tg) == ((PERCENT * Unit + tg) * Unit) \div (wacc - tg)

\* computeEV(wacc, tg) of renderSensitivity, wacc and tg in percent
computeEV(data, wacc, tg) ==
  LET baseWACC == data.scalars.wacc
      baseTG == data.scalars.terminalGrowth
      baseEV == ScalarOf(data, "enterpriseValue")
      lastFCF == lastFCFOf(data)
  IN  IF wacc <= tg THEN NullV
      ELSE IF Truthy(lastFCF) /\ lastFCF.n > 0
           THEN Num((lastFCF.n * (PERCENT * Unit + tg)) \div (wacc - tg))
      ELSE IF Truthy(baseEV)
           THEN IF baseWACC <= baseTG THEN baseEV
                ELSE Num((baseEV.n *
                          ((gordonMultiple(wacc, tg) * Unit)
                             \div gordonMultiple(baseWACC, baseTG))) \div Unit)
      ELSE NullV

\* baseWACC == null || baseTG == null || (baseEV == null && lastFCF == null)
sensitivityHidden(data) ==
  \/ "wacc" \notin DOMAIN data.scalars
  \/ "terminalGrowth" \notin DOMAIN data.scalars
  \/ "enterpriseValue" \notin DOMAIN data.scalars /\ lastFCFOf(data) = NullV

\* The cells of the table, by (row of waccRange, column of tgRange)
sensitivityTable(data) ==
  LET waccRange == rangeAround(data.scalars.wacc, waccOffsets)
      tgRange == rangeAround(data.scalars.terminalGrowth, tgOffsets)
  IN  [c \in (DOMAIN waccOffsets) \X (DOMAIN tgOffsets) |->
         computeEV(data, waccRange[c[1]], tgRange[c[2]])]

-----------------------------------------------------------------------------
(* Valuation Analytics: estimateIRR *)

\* if (n < 2) return null
MinFlows == 2

\* for (let iter = 0; iter < 100; iter++)
IterCap == 100

\* Math.abs(dnpv) < 1e-10, as 1 / |dnpv| > TenTo5 * TenTo5
TenTo5 == 100000

\* Math.abs(next - rate) < 1e-7, as 1 / |next - rate| > TenTo7
TenTo7 == 10000000

\* A rate is an exact fraction [num, den], den > 0; the first is 0.10
FirstRate == [num |-> 1, den |-> 10]

RECURSIVE Pow(_, _)
Pow(x, n) == IF n = 0 THEN 1 ELSE x * Pow(x, n - 1)

Sign(x) == IF x < 0 THEN 0 - 1 ELSE 1

\* [-ev, ...fcfs.filter(x => x != null)]; if (tv) last += tv
\* (plain numbers; tv is NullV when undefined)
cashFlowsOf(fcfs, ev, tv) ==
  LET flows == <<0 - ev>> \o Map(NonNull(fcfs), LAMBDA v : v.n)
  IN  IF Truthy(tv)
      THEN [flows EXCEPT ![Len(flows)] = flows[Len(flows)] + tv.n]
      ELSE flows

\* With rate = a/b and X = a + b (so 1 + rate = X/b), T = cashFlows.length - 1:
\*   npv  =  Nn / X^T            Nn = sum of cf[t] * b^t * X^(T-t)
\*   dnpv = -b * Dn / X^(T+1)    Dn = sum of t * cf[t] * b^t * X^(T-t)
RECURSIVE flowSum(_, _, _, _)
flowSum(cf, rate, t, weighted) ==
  IF t > Len(cf) - 1 THEN 0
  ELSE (IF weighted THEN t ELSE 1) * cf[t + 1] * Pow(rate.den, t)
         * Pow(rate.num + rate.den, Len(cf) - 1 - t)
       + flowSum(cf, rate, t + 1, weighted)

Nn(cf, rate) == flowSum(cf, rate, 0, FALSE)

Dn(cf, rate) == flowSum(cf, rate, 0, TRUE)

\* Math.abs(dnpv) < 1e-10
derivativeFlat(cf, rate) ==
  \/ Dn(cf, rate) = 0
  \/ (Abs(Pow(rate.num + rate.den, Len(cf)))
        \div Abs(rate.den * Dn(cf, rate))) \div TenTo5 >= TenTo5

RECURSIVE Gcd(_, _)
Gcd(a, b) == IF b = 0 THEN a ELSE Gcd(b, a % b)

\* The fraction n/d in lowest terms, den positive
Fraction(n, d) ==
  [num |-> (Sign(d) * n) \div Gcd(Abs(n), Abs(d)),
   den |-> Abs(d) \div Gcd(Abs(n), Abs(d))]

\* next = rate - npv / dnpv = (a * Dn + Nn * X) / (b * Dn)
nextRate(cf, rate) ==
  Fraction(rate.num * Dn(cf, rate) + Nn(cf, rate) * (rate.num + rate.den),
           rate.den * Dn(cf, rate))

\* Math.abs(next - rate) < 1e-7, next - rate = Nn * X / (b * Dn)
stepConverged(cf, rate) ==
  LET step == Abs(Nn(cf, rate) * (rate.num + rate.den))
  IN  step = 0 \/ Abs(rate.den * Dn(cf, rate)) \div step >= TenTo7

\* rate < -0.99 || rate > 10
diverged(rate) ==
  \/ PERCENT * rate.num < (0 - 99) * rate.den
  \/ rate.num > 10 * rate.den

-----------------------------------------------------------------------------
(* POST /api/register (src/server.js): the users table as the sequence of
   its usernames in insert order, a status as a string *)

MinUsernameLen == 3

MinPasswordLen == 6

\* The three input checks: "400" when one of them answers, "" when the body
\* passes (an empty or missing field is <<>>)
validateBody(body) ==
  IF body.username = <<>> \/ body.password = <<>> THEN "400"
  ELSE IF Len(body.username) < MinUsernameLen THEN "400"
  ELSE IF Len(body.password) < MinPasswordLen THEN "400"
  ELSE ""

\* stmts.findUser.get(username): is there a row with this username
findUser(table, username) == \E i \in DOMAIN table : table[i] = username

\* The outcomes of the handler's promise rejecting when createUser.run
\* throws on the UNIQUE constraint: the router answers 500, or the rejection
\* is unhandled and the request gets no response
InsertFailureOutcomes == {"500", "none"}

-----------------------------------------------------------------------------
(* State *)

VARIABLES
  rows,      \* the grid handed to parseSheet
  pc,        \* "start", "scan", "done"; "call" when deriveMetrics is called alone
  yearRow,   \* index (from 0) of the year row, NoRow for null
  yearCols,  \* sequence of [col, year]
  r,         \* the row the scan is at (from 0)
  series,    \* key -> values per year, as the row scan left it
  scalars,   \* key -> single value, as the row scan left it
  result     \* what parseSheet returns: a model, or NullV

sheetVars == <<rows, pc, yearRow, yearCols, r, series, scalars, result>>

VARIABLES
  workbook,     \* the workbook handed to parseDCF
  dcfPc,        \* "start", "loop", "done"
  sheetsToTry,  \* [pickBestSheet(workbook), ...workbook.SheetNames]
  idx,          \* position (from 1) of the loop in sheetsToTry
  tried,        \* the names tried, in the order they were tried
  bestResult,
  bestScore,
  dcfResult     \* what parseDCF returns: a model, or NullV

dcfVars == <<workbook, dcfPc, sheetsToTry, idx, tried, bestResult, bestScore, dcfResult>>

VARIABLES
  data,    \* the model handed to renderSensitivity
  sensPc,  \* "start", "done"
  table    \* the cells of the sensitivity table, NullV while hidden

sensVars == <<data, sensPc, table>>

VARIABLES
  irrArgs,    \* [fcfs, ev, tv] handed to estimateIRR
  irrPc,      \* "start", "loop", "flat", "converged", "exhausted", "done"
  cashFlows,
  rate,       \* [num, den]
  iter,
  irrResult   \* what estimateIRR returns: a percentage [num, den], or NullV

irrVars == <<irrArgs, irrPc, cashFlows, rate, iter, irrResult>>

analyticsVars == <<sensVars, irrVars>>

VARIABLES
  raw,           \* the label handed to normalize and to matchLabel
  labelPc,       \* "start", "normalized", "renormalized", "matched"
  normalized,    \* normalize(raw)
  renormalized,  \* normalize(normalize(raw))
  matched        \* matchLabel(raw), "" for null

labelVars == <<raw, labelPc, normalized, renormalized, matched>>

VARIABLES
  users,      \* the usernames of the rows of the users table, row id = position
  requests,   \* request -> its body [username, password]
  regPc,      \* request -> "start", "hash" (suspended at the await), "done"
  responses,  \* request -> the status answered, "none" while unanswered
  sessions    \* request -> req.session [userId, username], NullV while not set

regVars == <<users, requests, regPc, responses, sessions>>

serviceVars == <<labelVars, regVars>>

-----------------------------------------------------------------------------
(* parseSheet as a state machine: the grid, the position in the function,
   and its locals *)

\* Bounds of the grids drawn
MaxDataRows == 2

S(x) == Str(x)

\* Candidate year rows: numeric years, captions, numeric strings, years past
\* 2050, a gap between the year columns, a single year
YearRowPool ==
  { <<NullV, Num(2023 * Unit), Num(2024 * Unit), NullV>>,
    <<NullV, S(<<"F","Y","2","0","2","5">>), S(<<"2","0","2","6","E">>), NullV>>,
    <<NullV, S(<<"2","0","2","3">>), NullV, Num(2025 * Unit)>>,
    <<NullV, S(<<"F","Y","2","0","6","0">>), Num(2061 * Unit), NullV>>,
    <<S(<<"Y","e","a","r">>), Num(2023 * Unit), S(<<"n","/","a">>), NullV>> }

\* Captions of the labeled rows
LabelPool ==
  { S(<<"N","e","t"," ","S","a","l","e","s","!">>),
    S(<<"C","O","G","S">>) }

\* Cells of the first data column: missing, empty string,
\* non-numeric text, a number
CellPool == { NullV, S(<<>>), S(<<"n","/","a">>), Num(5 * Unit) }

\* Cells of the second data column; a third column is missing from the row
TailPool == { NullV, Num(7 * Unit) }

DataRowPool == { <<l, a, b>> : l \in LabelPool, a \in CellPool, b \in TailPool }

\* The year row placed before the last data row
WithYearRow(y, ds) ==
  IF ds = <<>> THEN <<y>>
  ELSE SubSeq(ds, 1, Len(ds) - 1) \o <<y, ds[Len(ds)]>>

\* A grid of one year row and 0 .. MaxDataRows labeled rows
InitSheet ==
  /\ \E y \in YearRowPool, n \in 0..MaxDataRows :
       \E ds \in [1..n -> DataRowPool] : rows = WithYearRow(y, ds)
  /\ pc = "start"
  /\ yearRow = NoRow
  /\ yearCols = <<>>
  /\ r = 0
  /\ series = EmptyMap
  /\ scalars = EmptyMap
  /\ result = NullV

\* if (!rows || rows.length < 2) return null; then step 1
DetectYears ==
  /\ pc = "start"
  /\ IF Len(rows) < MinRows
     THEN /\ pc' = "done"
          /\ UNCHANGED <<yearRow, yearCols>>
     ELSE /\ pc' = "scan"
          /\ yearRow' = detectYears(rows).yearRow
          /\ yearCols' = detectYears(rows).yearCols
  /\ UNCHANGED <<rows, r, series, scalars, result, dcfVars, analyticsVars, serviceVars>>

\* One iteration of the loop of step 2
ScanRow ==
  /\ pc = "scan"
  /\ r < Len(rows)
  /\ LET acc == scanRow(rows, r, [yearRow |-> yearRow, yearCols |-> yearCols],
                        [series |-> series, scalars |-> scalars])
     IN  /\ series' = acc.series
         /\ scalars' = acc.scalars
  /\ r' = r + 1
  /\ UNCHANGED <<rows, pc, yearRow, yearCols, result, dcfVars, analyticsVars, serviceVars>>

\* The end of the loop: return null, or step 3 and the return. series and
\* scalars keep what the row scan extracted; result holds the derived model.
Finish ==
  /\ pc = "scan"
  /\ r >= Len(rows)
  /\ pc' = "done"
  /\ result' =
       IF DOMAIN series = {} /\ DOMAIN scalars = {} THEN NullV
       ELSE LET dm == deriveMetrics(series, scalars, Map(yearCols, YearOf))
            IN  [k |-> "model",
                 years |-> Map(yearCols, YearOf),
                 series |-> dm.series,
                 scalars |-> dm.scalars]
  /\ UNCHANGED <<rows, yearRow, yearCols, r, series, scalars, dcfVars, analyticsVars, serviceVars>>

-----------------------------------------------------------------------------
(* deriveMetrics called on its own: series and scalars drawn from what the
   row scan can leave (every series as long as the years, with at least one
   number; every scalar a number), pc = "call" before and "done" after *)

\* Bounds of the objects drawn
NumYears == 2

MaxSeriesKeys == 2

MaxScalarKeys == 3

\* Keys the per-year rules read
PerYearKeys == {"revenue", "cogs", "grossProfit", "ebit", "ebitda", "da", "netIncome"}

\* Keys the scalar rules read
ValuationKeys ==
  {"wacc", "terminalGrowth", "enterpriseValue", "equityValue", "pvFCF", "pvTerminal"}

\* Entries of a drawn series: absent or a number; a cost is negative, a
\* revenue may be zero
EntryPool(key) ==
  IF key \in {"cogs", "da"} THEN {NullV, Num(0 - 2 * Unit)}
  ELSE IF key = "revenue" THEN {NullV, Num(0), Num(5 * Unit)}
  ELSE {NullV, Num(5 * Unit)}

\* Values of a drawn scalar: zero, a fraction (0.09), a number
ScalarPool == {0, 9, 100 * Unit}

SeriesPool(key) ==
  {s \in [1..NumYears -> EntryPool(key)] : \E i \in 1..NumYears : IsNum(s[i])}

\* Every object with at most max of the keys, each key's value from Pool(key)
MapsOver(keys, max, Pool(_)) ==
  LET F[ks \in SUBSET keys] ==
        IF ks = {} THEN {EmptyMap}
        ELSE LET k == CHOOSE x \in ks : TRUE
             IN  {Put(f, k, v) : f \in F[ks \ {k}], v \in Pool(k)}
  IN  UNION {F[ks] : ks \in {x \in SUBSET keys : Cardinality(x) <= max}}

ScalarPoolOf(key) == ScalarPool

DrawnYearCols == [i \in 1..NumYears |-> [col |-> i, year |-> (2022 + i) * Unit]]

InitDerive ==
  /\ rows = <<>>
  /\ pc = "call"
  /\ yearRow = NoRow
  /\ yearCols = DrawnYearCols
  /\ r = 0
  /\ \/ /\ series \in MapsOver(PerYearKeys, MaxSeriesKeys, SeriesPool) \ {EmptyMap}
        /\ scalars = EmptyMap
     \/ /\ series \in MapsOver(ValuationKeys \ {"terminalGrowth", "equityValue"}, 1, SeriesPool)
        /\ scalars \in MapsOver(ValuationKeys, MaxScalarKeys, ScalarPoolOf)
        /\ DOMAIN series # {} \/ DOMAIN scalars # {}
  /\ result = NullV

\* deriveMetrics(series, scalars, years); result holds the two objects after
\* the call, series and scalars what they were before it
DeriveCall ==
  /\ pc = "call"
  /\ pc' = "done"
  /\ result' =
       LET dm == deriveMetrics(series, scalars, Map(yearCols, YearOf))
       IN  [k |-> "model",
            years |-> Map(yearCols, YearOf),
            series |-> dm.series,
            scalars |-> dm.scalars]
  /\ UNCHANGED <<rows, yearRow, yearCols, r, series, scalars, dcfVars, analyticsVars, serviceVars>>

\* deriveMetrics on the three series of the gross-profit rule: each of
\* revenue, cogs and grossProfit extracted or not, a cost of either sign
GrossKeys == {"revenue", "cogs", "grossProfit"}

GrossEntryPool(key) ==
  IF key = "cogs" THEN {NullV, Num(0 - 2 * Unit), Num(3 * Unit)}
  ELSE {NullV, Num(0), Num(5 * Unit)}

GrossSeriesPool(key) ==
  {s \in [1..NumYears -> GrossEntryPool(key)] : \E i \in 1..NumYears : IsNum(s[i])}

InitGross ==
  /\ rows = <<>>
  /\ pc = "call"
  /\ yearRow = NoRow
  /\ yearCols = DrawnYearCols
  /\ r = 0
  /\ series \in MapsOver(GrossKeys, Cardinality(GrossKeys), GrossSeriesPool) \ {EmptyMap}
  /\ scalars = EmptyMap
  /\ result = NullV

-----------------------------------------------------------------------------
(* parseDCF as a state machine *)

\* Bound of the workbooks drawn
MaxSheets == 3

NamePool ==
  { <<"S","u","m","m","a","r","y">>,
    <<"D","C","F","-","M","o","d","e","l">>,
    <<"R","a","w"," ","D","a","t","a">>,
    <<"S","h","e","e","t","1">> }

YearsRow == <<NullV, Num(2023 * Unit), Num(2024 * Unit)>>

RevenueRow == <<S(<<"R","e","v","e","n","u","e">>), Num(100 * Unit), Num(110 * Unit)>>

CogsRow == <<S(<<"C","O","G","S">>), Num(60 * Unit), Num(65 * Unit)>>

WaccRow == <<S(<<"W","A","C","C">>), Num(9)>>

TgRow == <<S(<<"T","e","r","m","i","n","a","l"," ","G","r","o","w","t","h">>), Num(2)>>

EvRow == <<S(<<"E","n","t","e","r","p","r","i","s","e"," ","V","a","l","u","e">>), Num(300 * Unit)>>

\* Grids of the sheets drawn: no rows; one series (score 1); two series,
\* from which two more are derived (score 4);
\* two scalars, from which a third is derived (score 6); two scalars and
\* nothing derived (score 4)
GridPool ==
  { <<>>,
    <<YearsRow, RevenueRow>>,
    <<YearsRow, RevenueRow, CogsRow>>,
    <<WaccRow, EvRow>>,
    <<WaccRow, TgRow>> }

\* A workbook of 1 .. MaxSheets sheets with distinct names
InitDCF ==
  /\ \E n \in 1..MaxSheets :
       \E names \in [1..n -> NamePool], grids \in [1..n -> GridPool] :
         /\ \A i, j \in 1..n : i # j => names[i] # names[j]
         /\ workbook = [i \in 1..n |-> [name |-> names[i], rows |-> grids[i]]]
  /\ dcfPc = "start"
  /\ sheetsToTry = <<>>
  /\ idx = 1
  /\ tried = <<>>
  /\ bestResult = NullV
  /\ bestScore = 0
  /\ dcfResult = NullV

\* const sheetsToTry = [pickBestSheet(workbook), ...workbook.SheetNames]
ParseDCFStart ==
  /\ dcfPc = "start"
  /\ dcfPc' = "loop"
  /\ sheetsToTry' = <<pickBestSheet(workbook)>> \o SheetNames(workbook)
  /\ UNCHANGED <<workbook, idx, tried, bestResult, bestScore, dcfResult, sheetVars, analyticsVars, serviceVars>>

\* One iteration of for (const sheetName of sheetsToTry)
TrySheet ==
  /\ dcfPc = "loop"
  /\ idx <= Len(sheetsToTry)
  /\ idx' = idx + 1
  /\ LET sheetName == sheetsToTry[idx]
         res == parseSheet(SheetRows(workbook, sheetName))
     IN  IF sheetName \in Range(tried)
         THEN UNCHANGED <<tried, bestResult, bestScore>>
         ELSE /\ tried' = Append(tried, sheetName)
              /\ IF res # NullV /\ beatsBest(scoreOf(res), bestScore)
                 THEN /\ bestScore' = scoreOf(res)
                      /\ bestResult' = res
                 ELSE UNCHANGED <<bestResult, bestScore>>
  /\ UNCHANGED <<workbook, dcfPc, sheetsToTry, dcfResult, sheetVars, analyticsVars, serviceVars>>

\* The end of the loop and the return
ParseDCFReturn ==
  /\ dcfPc = "loop"
  /\ idx > Len(sheetsToTry)
  /\ dcfPc' = "done"
  /\ dcfResult' = dcfReturn(bestResult, bestScore)
  /\ UNCHANGED <<workbook, sheetsToTry, idx, tried, bestResult, bestScore, sheetVars, analyticsVars, serviceVars>>

-----------------------------------------------------------------------------
(* renderSensitivity on a parsed model *)

\* Bound of the fcf series drawn
MaxFcfLen == 2

\* wacc and terminalGrowth as deriveMetrics leaves them, in percent
WaccPool == {0, 3 * Unit, 10 * Unit}

GrowthPool == {2 * Unit, 3 * Unit, 4 * Unit}

EvPool == {0, 1000 * Unit, 0 - 40 * Unit}

FcfPool == {NullV, Num(0), Num(50 * Unit), Num(0 - 10 * Unit)}

FcfSeriesPool(key) ==
  {s \in [1..MaxFcfLen -> FcfPool] : \E i \in 1..MaxFcfLen : IsNum(s[i])}

SensScalarPool(key) ==
  IF key = "wacc" THEN WaccPool
  ELSE IF key = "terminalGrowth" THEN GrowthPool
  ELSE EvPool

InitSens ==
  /\ sensPc = "start"
  /\ table = NullV
  /\ \E ss \in MapsOver({"fcf"}, 1, FcfSeriesPool),
        sc \in MapsOver({"wacc", "terminalGrowth", "enterpriseValue"}, 3, SensScalarPool) :
       data = [k |-> "model", years |-> Map(DrawnYearCols, YearOf),
               series |-> ss, scalars |-> sc]

\* renderSensitivity(data)
RenderSensitivity ==
  /\ sensPc = "start"
  /\ sensPc' = "done"
  /\ table' = IF sensitivityHidden(data) THEN NullV ELSE sensitivityTable(data)
  /\ UNCHANGED <<data, sheetVars, dcfVars, irrVars, serviceVars>>

-----------------------------------------------------------------------------
(* estimateIRR on the arguments renderSummaryCards passes *)

\* Bound of the fcf series drawn
MaxIrrLen == 3

\* Newton steps followed; the fractions of a further step do not fit the
\* 32-bit integers of TLC
MaxNewtonSteps == 1

IrrFcfPool == {NullV, Num(20 * Unit), Num(0 - 11 * Unit), Num(11 * Unit), Num(121 * Unit)}

\* s.enterpriseValue, truthy at the call
IrrEvPool == {100 * Unit, 110 * Unit, 0 - 5 * Unit}

\* s.terminalValue, NullV for undefined
IrrTvPool == {NullV, Num(0), Num(150 * Unit)}

InitIRR ==
  /\ irrArgs \in [fcfs : UNION {[1..n -> IrrFcfPool] : n \in 1..MaxIrrLen},
                  ev : IrrEvPool, tv : IrrTvPool]
  /\ irrPc = "start"
  /\ cashFlows = <<>>
  /\ rate = FirstRate
  /\ iter = 0
  /\ irrResult = NullV

\* Lines up to the loop
EstimateIRRStart ==
  /\ irrPc = "start"
  /\ IF Len(NonNull(irrArgs.fcfs)) < MinFlows
     THEN /\ irrPc' = "done"
          /\ irrResult' = NullV
          /\ UNCHANGED cashFlows
     ELSE /\ irrPc' = "loop"
          /\ cashFlows' = cashFlowsOf(irrArgs.fcfs, irrArgs.ev, irrArgs.tv)
          /\ UNCHANGED irrResult
  /\ UNCHANGED <<irrArgs, rate, iter, sheetVars, dcfVars, sensVars, serviceVars>>

\* The loop test and one pass of the loop body
NewtonStep ==
  /\ irrPc = "loop"
  /\ iter < MaxNewtonSteps
  /\ IF ~(iter < IterCap)
     THEN /\ irrPc' = "exhausted"
          /\ UNCHANGED <<rate, iter, irrResult>>
     ELSE IF derivativeFlat(cashFlows, rate)
     THEN /\ irrPc' = "flat"
          /\ UNCHANGED <<rate, iter, irrResult>>
     ELSE IF stepConverged(cashFlows, rate)
     THEN /\ irrPc' = "converged"
          /\ rate' = nextRate(cashFlows, rate)
          /\ UNCHANGED <<iter, irrResult>>
     ELSE IF diverged(nextRate(cashFlows, rate))
     THEN /\ irrPc' = "done"
          /\ rate' = nextRate(cashFlows, rate)
          /\ irrResult' = NullV
          /\ UNCHANGED iter
     ELSE /\ rate' = nextRate(cashFlows, rate)
          /\ iter' = iter + 1
          /\ UNCHANGED <<irrPc, irrResult>>
  /\ UNCHANGED <<irrArgs, cashFlows, sheetVars, dcfVars, sensVars, serviceVars>>

\* return rate * 100
ReturnRate ==
  /\ irrPc \in {"flat", "converged", "exhausted"}
  /\ irrPc' = "done"
  /\ irrResult' = [num |-> PERCENT * rate.num, den |-> rate.den]
  /\ UNCHANGED <<irrArgs, cashFlows, rate, iter, sheetVars, dcfVars, sensVars, serviceVars>>

-----------------------------------------------------------------------------
(* normalize and matchLabel on a label *)

\* Bound of the labels drawn
MaxLabelLen == 4

\* Letters of both cases, a digit, punctuation, whitespace
LabelAlphabet == {"A", "a", "b", "7", "-", "&", " ", "\t"}

\* Every pattern of the registry
RegistryPatterns ==
  UNION {Range(LABEL_MAP[e].patterns) : e \in DOMAIN LABEL_MAP}

InitLabel ==
  /\ \/ \E n \in 0..MaxLabelLen : raw \in [1..n -> LabelAlphabet]
     \/ raw \in RegistryPatterns
  /\ labelPc = "start"
  /\ normalized = <<>>
  /\ renormalized = <<>>
  /\ matched = ""

\* normalize(raw)
NormalizeCall ==
  /\ labelPc = "start"
  /\ labelPc' = "normalized"
  /\ normalized' = normalize(raw)
  /\ UNCHANGED <<raw, renormalized, matched, regVars, sheetVars, dcfVars, analyticsVars>>

\* normalize applied to its own result
NormalizeAgain ==
  /\ labelPc = "normalized"
  /\ labelPc' = "renormalized"
  /\ renormalized' = normalize(normalized)
  /\ UNCHANGED <<raw, normalized, matched, regVars, sheetVars, dcfVars, analyticsVars>>

\* matchLabel(raw)
MatchLabelCall ==
  /\ labelPc = "start"
  /\ labelPc' = "matched"
  /\ matched' = matchLabel(raw)
  /\ UNCHANGED <<raw, normalized, renormalized, regVars, sheetVars, dcfVars, analyticsVars>>

-----------------------------------------------------------------------------
(* Concurrent POST /api/register requests against an empty users table. A
   handler runs without interruption up to its await and again from the
   await to its end; the handlers of different requests interleave at the
   await only. *)

NumRequests == 2

UsernamePool == {<<>>, <<"a","l">>, <<"a","l","i","c","e">>, <<"b","o","b">>}

PasswordPool == {<<>>, <<"1","2","3">>, <<"s","e","c","r","e","t">>}

InitRegister ==
  /\ users = <<>>
  /\ \E n \in 1..NumRequests :
       /\ requests \in [1..n -> [username : UsernamePool, password : PasswordPool]]
       /\ regPc = [q \in 1..n |-> "start"]
       /\ responses = [q \in 1..n |-> "none"]
       /\ sessions = [q \in 1..n |-> NullV]

\* The handler from its entry to the await: the input checks and the
\* 'username taken' check
RegisterStart ==
  \E q \in DOMAIN requests :
    /\ regPc[q] = "start"
    /\ IF validateBody(requests[q]) # ""
       THEN /\ responses' = [responses EXCEPT ![q] = validateBody(requests[q])]
            /\ regPc' = [regPc EXCEPT ![q] = "done"]
       ELSE IF findUser(users, requests[q].username)
       THEN /\ responses' = [responses EXCEPT ![q] = "409"]
            /\ regPc' = [regPc EXCEPT ![q] = "done"]
       ELSE /\ regPc' = [regPc EXCEPT ![q] = "hash"]
            /\ UNCHANGED responses
    /\ UNCHANGED <<users, requests, sessions, labelVars, sheetVars, dcfVars, analyticsVars>>

\* The handler from the resolved bcrypt.hash to its end: the insert, the
\* session and the 201; an insert of a username already in the table throws
RegisterResume ==
  \E q \in DOMAIN requests :
    /\ regPc[q] = "hash"
    /\ regPc' = [regPc EXCEPT ![q] = "done"]
    /\ IF findUser(users, requests[q].username)
       THEN /\ \E outcome \in InsertFailureOutcomes :
                 responses' = [responses EXCEPT ![q] = outcome]
            /\ UNCHANGED <<users, sessions>>
       ELSE /\ users' = Append(users, requests[q].username)
            /\ sessions' = [sessions EXCEPT ![q] =
                 [userId |-> Len(users) + 1, username |-> requests[q].username]]
            /\ responses' = [responses EXCEPT ![q] = "201"]
    /\ UNCHANGED <<requests, labelVars, sheetVars, dcfVars, analyticsVars>>

-----------------------------------------------------------------------------
(* Specifications: one per component, the other components at rest *)

vars == <<sheetVars, dcfVars, analyticsVars, serviceVars>>

IdleSheet ==
  /\ rows = <<>>
  /\ pc = "idle"
  /\ yearRow = NoRow
  /\ yearCols = <<>>
  /\ r = 0
  /\ series = EmptyMap
  /\ scalars = EmptyMap
  /\ result = NullV

IdleDCF ==
  /\ workbook = <<>>
  /\ dcfPc = "idle"
  /\ sheetsToTry = <<>>
  /\ idx = 1
  /\ tried = <<>>
  /\ bestResult = NullV
  /\ bestScore = 0
  /\ dcfResult = NullV

IdleSens ==
  /\ data = NullV
  /\ sensPc = "idle"
  /\ table = NullV

IdleIRR ==
  /\ irrArgs = NullV
  /\ irrPc = "idle"
  /\ cashFlows = <<>>
  /\ rate = FirstRate
  /\ iter = 0
  /\ irrResult = NullV

IdleLabel ==
  /\ raw = <<>>
  /\ labelPc = "idle"
  /\ normalized = <<>>
  /\ renormalized = <<>>
  /\ matched = ""

IdleRegister ==
  /\ users = <<>>
  /\ requests = <<>>
  /\ regPc = <<>>
  /\ responses = <<>>
  /\ sessions = <<>>

\* The label matcher and the registration handler at rest
IdleService == IdleLabel /\ IdleRegister

\* parseSheet on a grid
Init == InitSheet /\ IdleDCF /\ IdleSens /\ IdleIRR /\ IdleService

Next == DetectYears \/ ScanRow \/ Finish

Spec == Init /\ [][Next]_vars

\* deriveMetrics on the objects a row scan can leave
InitD == InitDerive /\ IdleDCF /\ IdleSens /\ IdleIRR /\ IdleService

NextD == DeriveCall

SpecDerive == InitD /\ [][NextD]_vars

\* deriveMetrics on the series of the gross-profit rule
InitG == InitGross /\ IdleDCF /\ IdleSens /\ IdleIRR /\ IdleService

NextG == DeriveCall

SpecGross == InitG /\ [][NextG]_vars

\* parseDCF on a workbook
InitW == InitDCF /\ IdleSheet /\ IdleSens /\ IdleIRR /\ IdleService

NextW == ParseDCFStart \/ TrySheet \/ ParseDCFReturn

SpecDCF == InitW /\ [][NextW]_vars

\* renderSensitivity on a model
InitS == InitSens /\ IdleSheet /\ IdleDCF /\ IdleIRR /\ IdleService

NextS == RenderSensitivity

SpecSens == InitS /\ [][NextS]_vars

\* estimateIRR on a series of cash flows
InitI == InitIRR /\ IdleSheet /\ IdleDCF /\ IdleSens /\ IdleService

NextI == EstimateIRRStart \/ NewtonStep \/ ReturnRate

SpecIRR == InitI /\ [][NextI]_vars

\* normalize and matchLabel on a label
InitL == InitLabel /\ IdleSheet /\ IdleDCF /\ IdleSens /\ IdleIRR /\ IdleRegister

NextL == NormalizeCall \/ NormalizeAgain \/ MatchLabelCall

SpecLabel == InitL /\ [][NextL]_vars


\* Concurrent registrations
InitR == InitRegister /\ IdleSheet /\ IdleDCF /\ IdleSens /\ IdleIRR /\ IdleLabel

NextR == RegisterStart \/ RegisterResume

SpecRegister == InitR /\ [][NextR]_vars
-----------------------------------------------------------------------------
(* Claims about parseSheet, checked under Spec *)

\* C1: every sequence stored in series, whether the row scan extracted it or
\* deriveMetrics added it, has as many entries as there are years.
C1_SeriesAlignedWithYears ==
  /\ \A key \in DOMAIN series : Len(series[key]) = Len(yearCols)
  /\ result.k = "model" =>
       \A key \in DOMAIN result.series :
         Len(result.series[key]) = Len(result.years)

\* C1 witness: a returned model with two years, an extracted series with an
\* absent entry and the series deriveMetrics adds.
C1_Witness ==
  /\ result.k = "model"
  /\ Len(result.years) = 2
  /\ {"revenue", "cogs", "grossProfit", "grossMargin"} \subseteq DOMAIN result.series
  /\ \E i \in 1..2 : result.series.cogs[i] = NullV

\* The cells the claim calls absent: null or missing, the empty string,
\* non-numeric text
IsBlankCell(v) == v = NullV \/ v = Str(<<>>) \/ NumberOf(v) = NaNV

\* C6: when a labeled row is read against the year columns, every year
\* column whose cell is null, missing, an empty string or non-numeric is
\* absent at that position of the series the row writes, never a number.
C6_BlankCellIsAbsent ==
  [][ (pc = "scan" /\ r < Len(rows) /\ series' # series) =>
        LET row == rows[r + 1]
            key == matchLabel(ToStr(Cell(row, 0)))
        IN  \A i \in DOMAIN yearCols :
              IsBlankCell(Cell(row, yearCols[i].col)) => series'[key][i] = NullV
    ]_vars

\* C9: at the end of the row scan, before deriveMetrics runs, no key is in
\* both series and scalars.
C9_SeriesScalarsDisjoint ==
  (pc = "scan" /\ r >= Len(rows)) => (DOMAIN series) \cap (DOMAIN scalars) = {}

\* C10: every year of an extracted model is an integer in [2000, 2050].
C10_YearsInRange ==
  result.k = "model" =>
    \A i \in DOMAIN result.years :
      /\ result.years[i] % Unit = 0
      /\ result.years[i] >= YearLo * Unit
      /\ result.years[i] <= YearHi * Unit

-----------------------------------------------------------------------------
(* Claims about deriveMetrics, checked under SpecDerive *)

\* The scalars as the last two rules of deriveMetrics find them
ScalarsBeforeSplit == beforeSplit(deriveSeries(series), scalars)

\* One of the last two rules fills its target
SplitRuleFires ==
  \/ firesPvFCF(ScalarsBeforeSplit)
  \/ firesPvTerminal(splitPvFCF(ScalarsBeforeSplit))

SplitConsistent(sc) == sc.pvFCF + sc.pvTerminal = sc.enterpriseValue

\* C2 as stated: whenever enterpriseValue, pvFCF and pvTerminal are all
\* populated after deriveMetrics (present and, as the code tests a scalar,
\* not zero), pvFCF + pvTerminal = enterpriseValue.
C2_SplitAlwaysConsistent ==
  (result.k = "model" /\
   \A key \in {"enterpriseValue", "pvFCF", "pvTerminal"} : Has(result.scalars, key))
    => SplitConsistent(result.scalars)

\* C2 as amended: whenever deriveMetrics itself fills pvFCF (as
\* enterpriseValue - pvTerminal) or pvTerminal (as enterpriseValue - pvFCF),
\* the three scalars are populated afterwards and
\* pvFCF + pvTerminal = enterpriseValue.
C2_SplitConsistentWhenDerived ==
  (result.k = "model" /\ SplitRuleFires) =>
    /\ {"enterpriseValue", "pvFCF", "pvTerminal"} \subseteq DOMAIN result.scalars
    /\ SplitConsistent(result.scalars)

\* C2 witness: pvFCF was not extracted and deriveMetrics set it to a
\* non-zero difference.
C2_Witness ==
  /\ result.k = "model"
  /\ "pvFCF" \notin DOMAIN scalars
  /\ firesPvFCF(ScalarsBeforeSplit)
  /\ result.scalars.pvFCF # 0
  /\ result.scalars.pvTerminal # result.scalars.enterpriseValue

\* The per-year series deriveMetrics can add, each with its two inputs
DerivedFrom ==
  [grossProfit |-> <<"revenue", "cogs">>,
   ebitda |-> <<"ebit", "da">>,
   ebit |-> <<"ebitda", "da">>,
   grossMargin |-> <<"revenue", "grossProfit">>,
   ebitdaMargin |-> <<"revenue", "ebitda">>,
   netMargin |-> <<"revenue", "netIncome">>]

\* C7: every per-year series deriveMetrics adds is absent at each index
\* where one of its inputs is absent.
C7_AbsencePropagates ==
  result.k = "model" =>
    \A d \in DOMAIN DerivedFrom :
      (d \notin DOMAIN series /\ d \in DOMAIN result.series) =>
        \A i \in DOMAIN result.series[d] :
          (\E j \in 1..2 : result.series[DerivedFrom[d][j]][i] = NullV)
            => result.series[d][i] = NullV


\* Revenue and COGS extracted with a number at every year index
RevenueAndCogsComplete ==
  /\ {"revenue", "cogs"} \subseteq DOMAIN series
  /\ \A i \in DOMAIN series.revenue : IsNum(series.revenue[i]) /\ IsNum(At(series.cogs, i))

GrossProfitIsDifference ==
  \A i \in DOMAIN series.revenue :
    result.series.grossProfit[i] = Num(series.revenue[i].n - Abs(series.cogs[i].n))

\* C11 as stated: in every model where Revenue and COGS are present at
\* every year index, grossProfit[i] = revenue[i] - abs(cogs[i]) for all i.
C11_GrossProfitAlwaysDifference ==
  (result.k = "model" /\ RevenueAndCogsComplete) => GrossProfitIsDifference

\* C11 as amended: in every model where Revenue and COGS are present at
\* every year index and no grossProfit row was extracted, deriveMetrics adds
\* grossProfit with grossProfit[i] = revenue[i] - abs(cogs[i]) for all i.
C11_GrossProfitDerivedIsDifference ==
  (result.k = "model" /\ RevenueAndCogsComplete /\ "grossProfit" \notin DOMAIN series)
    => ("grossProfit" \in DOMAIN result.series /\ GrossProfitIsDifference)

\* C11 witness: grossProfit derived from a complete Revenue and a complete
\* COGS that holds a negative and a positive cost.
C11_Witness ==
  /\ result.k = "model"
  /\ RevenueAndCogsComplete
  /\ "grossProfit" \notin DOMAIN series
  /\ \E i, j \in DOMAIN series.cogs : series.cogs[i].n < 0 /\ series.cogs[j].n > 0
  /\ "grossProfit" \in DOMAIN result.series

\* C16: deriveMetrics fills a scalar only when it is absent: every scalar
\* present before the call, one whose value is 0 included, has the same value
\* after it, except that a wacc or terminalGrowth strictly between 0 and 1 is
\* multiplied by 100.
C16_PresentScalarsKept ==
  result.k = "model" =>
    \A key \in DOMAIN scalars :
      result.scalars[key] =
        IF key \in {"wacc", "terminalGrowth"} /\ scalars[key] > 0 /\ scalars[key] < Unit
        THEN scalars[key] * PERCENT
        ELSE scalars[key]

\* C17: in one call of deriveMetrics the rule pvFCF := enterpriseValue -
\* pvTerminal and the rule pvTerminal := enterpriseValue - pvFCF never both
\* fire.
C17_SplitRulesExclusive ==
  pc = "done" =>
    ~(firesPvFCF(ScalarsBeforeSplit) /\ firesPvTerminal(splitPvFCF(ScalarsBeforeSplit)))

\* C17 witness: the first rule fired and left a non-zero pvFCF beside the
\* enterprise value, so that only the pvTerminal it read keeps the second
\* rule from firing.
C17_Witness ==
  /\ pc = "done"
  /\ firesPvFCF(ScalarsBeforeSplit)
  /\ Has(result.scalars, "enterpriseValue")
  /\ Has(result.scalars, "pvFCF")
  /\ ~firesPvTerminal(splitPvFCF(ScalarsBeforeSplit))

-----------------------------------------------------------------------------
(* Claims about pickBestSheet and parseDCF, checked under SpecDCF *)

NameHas(i, p) == Includes(normalize(workbook[i].name), preferred[p])

LeastOf(set) == CHOOSE i \in set : \A j \in set : i <= j

GreatestOf(set) == CHOOSE i \in set : \A j \in set : i >= j

\* C5: pickBestSheet returns the first sheet, in workbook order, whose
\* normalized name contains the earliest keyword of the list that any sheet
\* name contains, whatever the row counts and wherever the sheets matching
\* later keywords are; only when no name contains a keyword does it return
\* the sheet with the most rows, the first one on ties.
C5_PickByKeywordThenRows ==
  dcfPc = "loop" /\ idx = 1 =>
    LET has == {<<i, p>> \in (DOMAIN workbook) \X (DOMAIN preferred) : NameHas(i, p)}
        keywords == {h[2] : h \in has}
        maxRows == GreatestOf({Len(workbook[i].rows) : i \in DOMAIN workbook})
    IN  sheetsToTry[1] =
          IF keywords # {}
          THEN workbook[LeastOf({h[1] : h \in {g \in has : g[2] = LeastOf(keywords)}})].name
          ELSE workbook[LeastOf({i \in DOMAIN workbook : Len(workbook[i].rows) = maxRows})].name

\* C5 witness: the sheet picked for "dcf" comes after a sheet that matches
\* the later keyword "summary" and has more rows.
C5_Witness ==
  /\ dcfPc = "loop"
  /\ Len(workbook) >= 2
  /\ NameHas(1, 5)
  /\ NameHas(2, 1)
  /\ Len(workbook[1].rows) > Len(workbook[2].rows)
  /\ sheetsToTry[1] = workbook[2].name


\* C15: the score that compares candidates and is tested against 4 counts
\* the keys of row extraction alone: the score kept with the best candidate
\* is (series keys) + 2 x (scalar keys) of what the row scan extracted from
\* that sheet, keys added by derivation not counted.
C15_ScoreCountsExtractedKeys ==
  bestResult # NullV =>
    \E i \in DOMAIN workbook :
      /\ parseSheet(workbook[i].rows) = bestResult
      /\ bestScore = scoreOf(extractSheet(workbook[i].rows))

\* The sheets in the order parseDCF is to process them: the sheet picked by
\* pickBestSheet, then the others in workbook order
ProcessingOrder ==
  LET pick == pickBestSheet(workbook)
  IN  <<pick>> \o SelectSeq(SheetNames(workbook), LAMBDA n : n # pick)

\* Every position of a processing order with the parse of its sheet
ParsedPairs(order) ==
  {<<i, parseSheet(SheetRows(workbook, order[i]))>> : i \in DOMAIN order}

Candidates(pairs) == {p \in pairs : p[2] # NullV}

\* Of the candidates with the highest score, the one processed first
FirstTop(cands) ==
  CHOOSE c \in cands :
    \A d \in cands :
      \/ scoreOf(c[2]) > scoreOf(d[2])
      \/ scoreOf(c[2]) = scoreOf(d[2]) /\ c[1] <= d[1]

\* C18: parseDCF processes the sheet returned by pickBestSheet first, then
\* every other sheet in workbook order, each sheet at most once; and of the
\* candidates with the highest score it keeps the one processed first
\* (tried holds the sheets processed, in the order they were).
C18_PickFirstThenOrderFirstMaxKept ==
  dcfPc = "done" =>
    \A order \in {ProcessingOrder} :
      /\ tried = order
      /\ \A cands \in {Candidates(ParsedPairs(order))} :
           bestResult = IF cands = {} THEN NullV ELSE FirstTop(cands)[2]

\* C18 witness: the picked sheet is not the first of the workbook, and two
\* sheets with different models tie on the highest score; the one processed
\* first was kept.
C18_Witness ==
  /\ dcfPc = "done"
  /\ tried[1] # workbook[1].name
  /\ \E cands \in {Candidates(ParsedPairs(ProcessingOrder))} :
       \E c, d \in cands :
         /\ c = FirstTop(cands)
         /\ c[1] < d[1]
         /\ scoreOf(c[2]) = scoreOf(d[2])
         /\ c[2] # d[2]
         /\ bestResult = c[2]

-----------------------------------------------------------------------------
(* Claims about the valuation analytics *)

\* Row of waccRange and column of tgRange with offset 0
BaseCell == <<4, 3>>

\* C3: in a table that is shown, whenever the base EV is present and base
\* WACC > base growth, the cell at (base WACC, base growth) is the base EV,
\* a positive latest FCF included
C3_BaseCellIsBaseEV ==
  (/\ sensPc = "done"
   /\ table # NullV
   /\ "enterpriseValue" \in DOMAIN data.scalars
   /\ data.scalars.wacc > data.scalars.terminalGrowth)
    => table[BaseCell] = Num(data.scalars.enterpriseValue)

\* C8: estimateIRR returns a rate only from a step that converged; every
\* other way out of the Newton loop returns null
C8_RateOnlyAfterConvergedStep ==
  [][(irrPc' = "done" /\ irrResult' # NullV) => irrPc = "converged"]_vars


\* C12: a table that is shown has 7 WACC rows by 5 growth columns, and a
\* cell is undefined exactly when its candidate WACC is at most its
\* candidate growth; every other cell holds a number.
C12_CellUndefinedIffDegenerate ==
  (sensPc = "done" /\ table # NullV) =>
    LET waccRange == rangeAround(data.scalars.wacc, waccOffsets)
        tgRange == rangeAround(data.scalars.terminalGrowth, tgOffsets)
    IN  /\ DOMAIN table = (1..7) \X (1..5)
        /\ \A c \in DOMAIN table :
             IF waccRange[c[1]] <= tgRange[c[2]]
             THEN table[c] = NullV
             ELSE IsNum(table[c])

-----------------------------------------------------------------------------
(* Claims about normalize and matchLabel, checked under SpecLabel *)

LowerSet == Range(LowerChars)

\* Neither a letter, a digit nor whitespace
IsPunct(c) == c \notin UpperSet \cup LowerSet \cup DigitSet /\ ~IsSpace(c)

\* The other case of a letter
SwapCase(c) ==
  IF c \in UpperSet THEN LowerOf[c]
  ELSE IF c \in LowerSet
       THEN UpperChars[CHOOSE i \in DOMAIN LowerChars : LowerChars[i] = c]
       ELSE c

\* The label with its punctuation deleted
WithoutPunct(s) == Filter(s, LAMBDA c : ~IsPunct(c))

\* The label with every punctuation character replaced by to
PunctAs(s, to) == Map(s, LAMBDA c : IF IsPunct(c) THEN to ELSE c)

Idempotent == renormalized = normalized

CaseInsensitive == normalize(Map(raw, SwapCase)) = normalized

\* C13 as stated: normalize(normalize(x)) = normalize(x), and labels that
\* differ only in case or punctuation (one is the other with letters in
\* another case or with punctuation characters left out, as "Net Revenue!"
\* and "net revenue") normalize to the same string.
C13_IdempotentCasePunctInsensitive ==
  labelPc = "renormalized" =>
    /\ Idempotent
    /\ CaseInsensitive
    /\ normalize(WithoutPunct(raw)) = normalized

\* C13 as amended: normalize(normalize(x)) = normalize(x); labels that differ
\* only in case, or only in which punctuation character (or a space
\* instead) stands at a position, normalize to the same string.
C13_IdempotentCaseInsensitivePunctAsSpace ==
  labelPc = "renormalized" =>
    /\ Idempotent
    /\ CaseInsensitive
    /\ normalize(PunctAs(raw, " ")) = normalized
    /\ normalize(PunctAs(raw, "!")) = normalized

\* C13 witness: a label with an upper-case letter, punctuation and
\* whitespace, normalized twice.
C13_Witness ==
  /\ labelPc = "renormalized"
  /\ \E i, j, l \in DOMAIN raw : raw[i] \in UpperSet /\ IsPunct(raw[j]) /\ IsSpace(raw[l])
  /\ normalized # <<>>
  /\ normalized # raw

\* C14: every registered pattern classifies to its own entry: matchLabel(p)
\* is the key of the entry that lists p.
C14_PatternMatchesOwnKey ==
  labelPc = "matched" =>
    \A e \in DOMAIN LABEL_MAP :
      raw \in Range(LABEL_MAP[e].patterns) => matched = LABEL_MAP[e].key

-----------------------------------------------------------------------------
(* Claims about POST /api/register, checked under SpecRegister *)

\* The requests with a valid body that carry this username
Registering(username) ==
  {q \in DOMAIN requests :
     requests[q].username = username /\ validateBody(requests[q]) = ""}

\* C19: whatever the interleaving of the register requests that carry the
\* same valid username, once they have all ended exactly one of them has
\* answered 201 and every other one 409; none has ended on a failed insert
\* or without a response.
C19_OneCreatedOthersConflict ==
  \A username \in UsernamePool :
    (Registering(username) # {} /\ \A q \in Registering(username) : regPc[q] = "done") =>
      \E created \in Registering(username) :
        /\ responses[created] = "201"
        /\ \A q \in Registering(username) \ {created} : responses[q] = "409"

=============================================================================
